---- MODULE Spec2Model ----
(***************************************************************************)
(* Model of the FeedbackAnalysisAgent Durable Object (src/src/index.ts):   *)
(* the ingestion loop with its per-item classification call, the feedback  *)
(* table, and the read-side handlers (dashboard, recent feedback, trends,  *)
(* ask, summary).                                                          *)
(*                                                                         *)
(* Timestamps are ISO-8601 texts.  A text is modelled as <<day, tod>>:     *)
(* day is the calendar date, tod = 0 is the date-only text "YYYY-MM-DD"    *)
(* and tod > 0 is "YYYY-MM-DDThh:mm:ssZ", later times having larger tod.   *)
(* The lexicographic order of the pairs is the order of the texts.         *)
(***************************************************************************)
EXTENDS Integers, Sequences, FiniteSets, TLC

VARIABLES
    store,      \* the rows of table feedback, in insertion (rowid) order
    nextId,     \* stands for crypto.randomUUID(): the next unused id
    now,        \* the wall clock, <<day, tod>>
    kind,       \* per request: which route of fetch() it takes
    pc,         \* per request: position of the handler
    items,      \* per request: body.feedback of an /ingest call
    curId,      \* per request: the id drawn for the item being classified
    processed,  \* per request: the local array processed of ingestFeedback
    response,   \* per request: the Response returned by fetch()
    lastAI,     \* history: the request and the result of the AI.run that just returned
    arrival,    \* history: the requests in the order they were delivered
    accessLog,  \* history: the request behind each sql.exec, in order
    resp        \* the result of the query being answered (sequential use)

vars == <<store, nextId, now, kind, pc, items, curId, processed, response,
          lastAI, arrival, accessLog, resp>>

----------------------------------------------------------------------------
(* Bounds of the model *)

MaxReq == 2
MaxBatch == 2
MaxStore == 3
MaxDashStore == 3
MaxTrendStore == 3
MaxTicks == 1
MaxQueryStore == 2
MaxQueryTicks == 3
MaxClassifyStore == 1
MaxSegments == 3
\* getDashboardData reads getRecentFeedback(100); the window is scaled to the
\* store bound so that rows fall outside it
RecentWindow == 2
\* the array-index keys of an object run up to 2^32 - 2; the model's theme
\* labels that are such keys lie in 0..MaxIndexKey
MaxIndexKey == 10

Requests == 1..MaxReq

----------------------------------------------------------------------------
(* Values *)

Undefined == "<undefined>"
NoTimestamp == <<>>
NoResponse == [status |-> 0, body |-> <<>>]
NoResult == [op |-> "none"]

\* JSON values of the parsed classifier object, tagged by typeof
JAbsent == [t |-> "undefined", s |-> "", n |-> 0, a |-> <<>>]
JStr(x) == [t |-> "string", s |-> x, n |-> 0, a |-> <<>>]
JNum(x) == [t |-> "number", s |-> "", n |-> x, a |-> <<>>]
JArr(x) == [t |-> "array", s |-> "", n |-> 0, a |-> x]

EmptyObject == [sentiment |-> JAbsent, score |-> JAbsent, themes |-> JAbsent]

\* What AI.run does for one call: reject, or resolve with a response text.
\* "none": no '{...}' in the text (this includes a missing response field);
\* "invalid": a '{...}' match that JSON.parse rejects;
\* "object": a '{...}' match that parses to obj.
AIThrow == [kind |-> "throw", obj |-> EmptyObject]
AINoJson == [kind |-> "none", obj |-> EmptyObject]
AIInvalid == [kind |-> "invalid", obj |-> EmptyObject]
AIObject(o) == [kind |-> "object", obj |-> o]
NoAI == [req |-> 0, result |-> AINoJson]

\* A response text of AI.run, as the sequence of its segments:
\* "prose": plain words, no brace in them;
\* "open", "close": a single '{' or '}' outside any JSON object;
\* "object": the JSON text of the object obj, from its '{' to its '}'.
Prose == [seg |-> "prose", obj |-> EmptyObject]
OpenBrace == [seg |-> "open", obj |-> EmptyObject]
CloseBrace == [seg |-> "close", obj |-> EmptyObject]
ObjectText(o) == [seg |-> "object", obj |-> o]

Sentiments == {"positive", "neutral", "negative"}

\* JSON.stringify / JSON.parse of a value that came out of JSON.parse
JSONstringify(v) == <<"json", v>>
JSONparse(t) == t[2]

NoMetadata == [present |-> FALSE, kv |-> <<>>]

----------------------------------------------------------------------------
(* Inputs of the concurrent specification *)

ItemA == [source |-> "app_store", content |-> "Love this app!",
          timestamp |-> <<41, 1>>, metadata |-> NoMetadata]
ItemB == [source |-> "email", content |-> "Too expensive",
          timestamp |-> <<41, 2>>, metadata |-> NoMetadata]
ItemNoSource == [source |-> Undefined, content |-> "Crashes",
                 timestamp |-> <<40, 1>>, metadata |-> NoMetadata]
ItemNoTimestamp == [source |-> "email", content |-> "Crashes",
                    timestamp |-> NoTimestamp, metadata |-> NoMetadata]

InputItems == {ItemA, ItemB, ItemNoSource}

ObjPositive == [sentiment |-> JStr("positive"), score |-> JNum(9),
                themes |-> JArr(<<"pricing">>)]
ObjOdd == [sentiment |-> JStr("mixed"), score |-> JStr("9"),
           themes |-> JStr("pricing")]

AIResults == {AIThrow, AINoJson, AIInvalid,
              AIObject(ObjPositive), AIObject(ObjOdd)}

RECURSIVE SeqsUpTo(_, _)
SeqsUpTo(S, n) ==
    IF n = 0 THEN {<<>>}
    ELSE LET shorter == SeqsUpTo(S, n - 1)
         IN shorter \cup {Append(q, x) : q \in {p \in shorter : Len(p) = n - 1}, x \in S}

Batches == SeqsUpTo(InputItems, MaxBatch)

----------------------------------------------------------------------------
(* ingestFeedback, lines 103-161 *)

\* lines 109-140: the judgment attached to one item
Truthy(j) ==
    \/ j.t = "string" /\ j.s # ""
    \/ j.t = "number" /\ j.n # 0
    \/ j.t = "array"

Fallback == [sentiment |-> "neutral", score |-> 5, themes |-> <<>>]

\* variant: the defaults set before the try are 0 and not 5
Classify_DefaultZero(ai) ==
    IF ai.kind = "object"
    THEN [sentiment |-> IF Truthy(ai.obj.sentiment) THEN ai.obj.sentiment.s ELSE "neutral",
          score |-> IF ai.obj.score.t = "number" THEN ai.obj.score.n ELSE 0,
          themes |-> IF ai.obj.themes.t = "array" THEN ai.obj.themes.a ELSE <<>>]
    ELSE [sentiment |-> "neutral", score |-> 0, themes |-> <<>>]

Classify(ai) ==
    IF ai.kind = "object"
    THEN [sentiment |-> IF Truthy(ai.obj.sentiment) THEN ai.obj.sentiment.s ELSE "neutral",
          score |-> IF ai.obj.score.t = "number" THEN ai.obj.score.n ELSE 5,
          themes |-> IF ai.obj.themes.t = "array" THEN ai.obj.themes.a ELSE <<>>]
    ELSE Fallback

\* lines 130-133: text.match(/\{[\s\S]*\}/) is greedy, the match runs from
\* the first '{' of the text to its last '}'; JSON.parse accepts the match
\* when it is the text of one object and throws on anything else (an object
\* with text behind it, words in braces, a brace before an object)
HasOpen(g) == g.seg \in {"open", "object"}

HasClose(g) == g.seg \in {"close", "object"}

FirstOpen(text) ==
    IF \E i \in 1..Len(text) : HasOpen(text[i])
    THEN CHOOSE i \in 1..Len(text) :
             HasOpen(text[i]) /\ \A j \in 1..(i - 1) : ~HasOpen(text[j])
    ELSE 0

LastClose(text) ==
    IF \E i \in 1..Len(text) : HasClose(text[i])
    THEN CHOOSE i \in 1..Len(text) :
             HasClose(text[i]) /\ \A j \in (i + 1)..Len(text) : ~HasClose(text[j])
    ELSE 0

ParseResponse(text) ==
    IF FirstOpen(text) = 0 \/ LastClose(text) < FirstOpen(text) THEN AINoJson
    ELSE IF FirstOpen(text) = LastClose(text) THEN AIObject(text[FirstOpen(text)].obj)
    ELSE AIInvalid

\* line 142
MakeFeedback(id, item, c) ==
    [id |-> id, source |-> item.source, content |-> item.content,
     timestamp |-> item.timestamp, metadata |-> item.metadata,
     sentiment |-> c.sentiment, score |-> c.score, themes |-> c.themes]

\* lines 28-41: the NOT NULL columns
InsertFails(item) ==
    \/ item.source = Undefined
    \/ item.content = Undefined
    \/ item.timestamp = NoTimestamp

\* variant: source and content bound to each other's placeholder
MakeRow_SwappedColumns(id, item, c) ==
    [id |-> id, source |-> item.content, content |-> item.source,
     timestamp |-> item.timestamp, sentiment |-> c.sentiment, score |-> c.score,
     themes |-> JSONstringify(c.themes),
     metadata |-> JSONstringify(IF item.metadata.present THEN item.metadata.kv ELSE <<>>)]

\* lines 144-155: the row written by the INSERT
MakeRow(id, item, c) ==
    [id |-> id, source |-> item.source, content |-> item.content,
     timestamp |-> item.timestamp, sentiment |-> c.sentiment, score |-> c.score,
     themes |-> JSONstringify(c.themes),
     metadata |-> JSONstringify(IF item.metadata.present THEN item.metadata.kv ELSE <<>>)]

----------------------------------------------------------------------------
(* The queries of the read side *)

TopN == 10
DashboardTrendDays == 30
DefaultFeedbackLimit == 50
AskWindow == 30
DefaultSummaryDays == 7

\* text comparison of two timestamps (SQLite BINARY collation, JS string <)
TextLess(a, b) ==
    \/ a[1] < b[1]
    \/ a[1] = b[1] /\ a[2] < b[2]

\* SQLite DATE(timestamp): the calendar date of the text
DateOf(ts) == ts[1]

\* variant: DATETIME('now', '-N days'), which keeps the time of the day
DateNowMinus_WithTime(nw, days) == <<nw[1] - days, nw[2]>>

\* SQLite DATE('now', '-N days'): a date-only text
DateNowMinus(nw, days) == <<nw[1] - days, 0>>

Take(q, n) == SubSeq(q, 1, IF Len(q) < n THEN Len(q) ELSE n)

\* variant: Math.floor in place of Math.round
RoundTenths_Floor(sum, n) == (10 * sum) \div n

\* Math.round(x * 10) / 10 for x = sum / n, kept as a number of tenths;
\* Math.round rounds halves towards +Infinity
RoundTenths(sum, n) == (20 * sum + n) \div (2 * n)

\* lines 166-175: a row as returned to the callers
RowToItem(row) ==
    [id |-> row.id, source |-> row.source, content |-> row.content,
     timestamp |-> row.timestamp, sentiment |-> row.sentiment, score |-> row.score,
     themes |-> JSONparse(row.themes), metadata |-> JSONparse(row.metadata)]

\* ORDER BY timestamp DESC: SQL leaves the order of rows with equal
\* timestamps open, so every order of the row numbers that is descending
\* by timestamp is a possible result
RECURSIVE DescendingFrom(_, _)
DescendingFrom(s, S) ==
    IF S = {} THEN {<<>>}
    ELSE UNION {{<<i>> \o q : q \in DescendingFrom(s, S \ {i})} :
                   i \in {k \in S : \A j \in S : ~TextLess(s[k].timestamp, s[j].timestamp)}}

DescendingOrders(s) == DescendingFrom(s, 1..Len(s))

\* lines 163-176: the possible results of getRecentFeedback(limit)
getRecentFeedback(s, limit) ==
    {[i \in 1..Len(Take(p, limit)) |-> RowToItem(s[p[i]])] : p \in DescendingOrders(s)}

\* SELECT sentiment, COUNT(*) ... GROUP BY sentiment: one scan of the table
RECURSIVE CountBySentiment(_, _)
CountBySentiment(s, k) ==
    IF s = <<>> THEN 0
    ELSE (IF Head(s).sentiment = k THEN 1 ELSE 0) + CountBySentiment(Tail(s), k)

\* variant: each group row adds 1 instead of setting its count
SentimentCounts_PerGroup(s) ==
    [k \in Sentiments |-> IF CountBySentiment(s, k) > 0 THEN 1 ELSE 0]

\* lines 179-186
SentimentCounts(s) ==
    [k \in Sentiments |-> CountBySentiment(s, k)]

RECURSIVE SumScores(_)
SumScores(s) == IF s = <<>> THEN 0 ELSE Head(s).score + SumScores(Tail(s))

\* lines 188-189 and 254: AVG(score) || 0, rounded to one decimal (in tenths)
AverageScore(s) ==
    IF Len(s) = 0 \/ SumScores(s) = 0 THEN 0 ELSE RoundTenths(SumScores(s), Len(s))

\* GROUP BY DATE(timestamp) ORDER BY date: the groups, ascending by date,
\* built by one scan of the selected rows
NewGroup(row) ==
    [date |-> DateOf(row.timestamp), total |-> 1,
     positive |-> IF row.sentiment = "positive" THEN 1 ELSE 0,
     negative |-> IF row.sentiment = "negative" THEN 1 ELSE 0,
     sum |-> row.score]

AddToGroup(g, row) ==
    [g EXCEPT !.total = @ + 1,
              !.positive = @ + (IF row.sentiment = "positive" THEN 1 ELSE 0),
              !.negative = @ + (IF row.sentiment = "negative" THEN 1 ELSE 0),
              !.sum = @ + row.score]

\* variant: no ORDER BY date, the groups stay in the order they were met
RECURSIVE InsertGroup_Unordered(_, _)
InsertGroup_Unordered(groups, row) ==
    IF groups = <<>> THEN <<NewGroup(row)>>
    ELSE IF Head(groups).date = DateOf(row.timestamp)
         THEN <<AddToGroup(Head(groups), row)>> \o Tail(groups)
    ELSE <<Head(groups)>> \o InsertGroup_Unordered(Tail(groups), row)

RECURSIVE InsertGroup(_, _)
InsertGroup(groups, row) ==
    IF groups = <<>> THEN <<NewGroup(row)>>
    ELSE IF Head(groups).date = DateOf(row.timestamp)
         THEN <<AddToGroup(Head(groups), row)>> \o Tail(groups)
    ELSE IF DateOf(row.timestamp) < Head(groups).date
         THEN <<NewGroup(row)>> \o groups
    ELSE <<Head(groups)>> \o InsertGroup(Tail(groups), row)

RECURSIVE GroupByDate(_, _)
GroupByDate(s, cutoff) ==
    IF s = <<>> THEN <<>>
    ELSE LET rest == GroupByDate(SubSeq(s, 1, Len(s) - 1), cutoff)
             row == s[Len(s)]
         IN IF TextLess(cutoff, row.timestamp) THEN InsertGroup(rest, row) ELSE rest

\* lines 318-340
getTrends(s, nw, days) ==
    LET rows == GroupByDate(s, DateNowMinus(nw, days))
    IN [i \in 1..Len(rows) |->
           [date |-> rows[i].date, total |-> rows[i].total,
            positive |-> rows[i].positive, negative |-> rows[i].negative,
            avgScore |-> RoundTenths(rows[i].sum, rows[i].total)]]

\* lines 204-218
SentimentTrend(s, nw) ==
    LET rows == GroupByDate(s, DateNowMinus(nw, DashboardTrendDays))
    IN [i \in 1..Len(rows) |->
           [date |-> rows[i].date,
            avgScore |-> RoundTenths(rows[i].sum, rows[i].total),
            total |-> rows[i].total]]

\* lines 221-231: themeTrends after scanning the window, as its entries in
\* insertion order; the scan goes over every (item, theme) occurrence
NewTheme(theme) == [theme |-> theme, positive |-> 0, negative |-> 0, total |-> 0]

Bump(e, sentiment) ==
    [e EXCEPT !.total = @ + 1,
              !.positive = @ + (IF sentiment = "positive" THEN 1 ELSE 0),
              !.negative = @ + (IF sentiment = "negative" THEN 1 ELSE 0)]

RECURSIVE BumpTheme(_, _, _)
BumpTheme(entries, theme, sentiment) ==
    IF entries = <<>> THEN <<Bump(NewTheme(theme), sentiment)>>
    ELSE IF Head(entries).theme = theme
         THEN <<Bump(Head(entries), sentiment)>> \o Tail(entries)
    ELSE <<Head(entries)>> \o BumpTheme(Tail(entries), theme, sentiment)

RECURSIVE ScanThemes(_, _, _)
ScanThemes(entries, themes, sentiment) ==
    IF themes = <<>> THEN entries
    ELSE ScanThemes(BumpTheme(entries, Head(themes), sentiment), Tail(themes), sentiment)

RECURSIVE ThemeTrends(_)
ThemeTrends(w) ==
    IF w = <<>> THEN <<>>
    ELSE LET item == w[Len(w)]
         IN ScanThemes(ThemeTrends(SubSeq(w, 1, Len(w) - 1)), item.themes, item.sentiment)

\* Object.entries(record): the own string keys of an object are enumerated
\* with the array-index keys ("0", "1", "2", ...) first, ascending by their
\* numeric value, and the other keys after them in insertion order
IsIndexKey(key) == \E n \in 0..MaxIndexKey : ToString(n) = key

IndexOf(key) == CHOOSE n \in 0..MaxIndexKey : ToString(n) = key

RECURSIVE InsertByIndex(_, _)
InsertByIndex(sorted, e) ==
    IF sorted = <<>> THEN <<e>>
    ELSE IF IndexOf(e.theme) < IndexOf(Head(sorted).theme) THEN <<e>> \o sorted
    ELSE <<Head(sorted)>> \o InsertByIndex(Tail(sorted), e)

RECURSIVE IndexKeysAscending(_)
IndexKeysAscending(entries) ==
    IF entries = <<>> THEN <<>>
    ELSE LET rest == IndexKeysAscending(SubSeq(entries, 1, Len(entries) - 1))
             e == entries[Len(entries)]
         IN IF IsIndexKey(e.theme) THEN InsertByIndex(rest, e) ELSE rest

ObjectEntries(entries) ==
    IndexKeysAscending(entries) \o SelectSeq(entries, LAMBDA e : ~IsIndexKey(e.theme))

\* variant: Math.floor in place of Math.round
HealthScore_Floor(positive, negative, total) ==
    IF total > 0 THEN (100 * (positive - negative)) \div total ELSE 0

\* line 240: Math.round(((positive - negative) / total) * 100)
HealthScore(positive, negative, total) ==
    IF total > 0 THEN (200 * (positive - negative) + total) \div (2 * total) ELSE 0

\* Array.prototype.sort((a, b) => b.total - a.total): stable, descending
RECURSIVE InsertByTotal(_, _)
InsertByTotal(sorted, e) ==
    IF sorted = <<>> THEN <<e>>
    ELSE IF Head(sorted).total < e.total THEN <<e>> \o sorted
    ELSE <<Head(sorted)>> \o InsertByTotal(Tail(sorted), e)

RECURSIVE SortByTotal(_)
SortByTotal(q) ==
    IF q = <<>> THEN <<>>
    ELSE InsertByTotal(SortByTotal(SubSeq(q, 1, Len(q) - 1)), q[Len(q)])

\* lines 234-243
ThemeHealth(w) ==
    LET entries == ObjectEntries(ThemeTrends(w))
        scored == [i \in 1..Len(entries) |->
                     [theme |-> entries[i].theme, total |-> entries[i].total,
                      positive |-> entries[i].positive, negative |-> entries[i].negative,
                      score |-> HealthScore(entries[i].positive, entries[i].negative,
                                            entries[i].total)]]
    IN Take(SortByTotal(scored), TopN)

\* lines 192-201
TopThemes(w) ==
    LET entries == ObjectEntries(ThemeTrends(w))
        counted == [i \in 1..Len(entries) |->
                      [theme |-> entries[i].theme, total |-> entries[i].total]]
        top == Take(SortByTotal(counted), TopN)
    IN [i \in 1..Len(top) |-> [theme |-> top[i].theme, count |-> top[i].total]]

\* lines 245-249: SELECT source, COUNT(*) ... GROUP BY source, whose row order
\* SQL leaves open: the rows as a set
RECURSIVE CountBySource(_, _)
CountBySource(s, src) ==
    IF s = <<>> THEN 0
    ELSE (IF Head(s).source = src THEN 1 ELSE 0) + CountBySource(Tail(s), src)

SourceBreakdown(s) ==
    {[source |-> src, count |-> CountBySource(s, src)] :
        src \in {s[i].source : i \in 1..Len(s)}}

\* lines 178-261, for the window w that getRecentFeedback(100) returned
Dashboard(s, nw, w) ==
    LET sentimentCounts == SentimentCounts(s)
    IN [totalFeedback |-> sentimentCounts["positive"] + sentimentCounts["neutral"]
                            + sentimentCounts["negative"],
        sentimentCounts |-> sentimentCounts,
        averageScore |-> AverageScore(s),
        topThemes |-> TopThemes(w),
        sentimentTrend |-> SentimentTrend(s, nw),
        themeHealth |-> ThemeHealth(w),
        sourceBreakdown |-> SourceBreakdown(s),
        recentFeedback |-> Take(w, 10)]

getDashboardData(s, nw) ==
    {Dashboard(s, nw, w) : w \in getRecentFeedback(s, RecentWindow)}

\* What AI.run does for a generation call (ask, summary): reject, or resolve
\* with a response text, which may be missing or empty
GenThrow == [kind |-> "throw", text |-> "AI unavailable"]
GenEmpty == [kind |-> "text", text |-> ""]
GenText == [kind |-> "text", text |-> "Users praise the app; pricing is the main complaint."]
GenResults == {GenThrow, GenEmpty, GenText}

\* lines 266 and 292: one line of the context per item
ContextLine(f) ==
    [sentiment |-> f.sentiment, score |-> f.score, source |-> f.source, content |-> f.content]

Context(w) == [i \in 1..Len(w) |-> ContextLine(w[i])]

NoPrompt == [count |-> 0, days |-> 0, context |-> <<>>, question |-> ""]

\* lines 75-79 and 263-282 for the items w that getRecentFeedback(30)
\* returned: the prompt is sent, the text (or the fixed text for a missing
\* one) is answered; a rejected call ends in the catch of fetch (94-99)
askAboutFeedback(w, question, gen) ==
    [aiCalls |-> 1,
     prompt |-> [count |-> Len(w), days |-> 0, context |-> Context(w), question |-> question],
     status |-> IF gen.kind = "throw" THEN 500 ELSE 200,
     body |-> IF gen.kind = "throw" THEN [error |-> gen.text]
              ELSE [answer |-> IF gen.text # "" THEN gen.text
                               ELSE "Unable to generate response"]]

\* line 286: new Date(Date.now() - days * 24 * 60 * 60 * 1000).toISOString()
SummaryCutoff_DateOnly(nw, days) == <<nw[1] - days, 0>>

SummaryCutoff(nw, days) == <<nw[1] - days, nw[2]>>

\* line 287: feedback.filter((f) => f.timestamp >= cutoff)
SummaryFilter(w, cutoff) == SelectSeq(w, LAMBDA f : ~TextLess(f.timestamp, cutoff))

\* line 290
NoFeedbackMessage(days) == [text |-> "No feedback received in the last N days.", N |-> days]

\* lines 81-85 and 284-316 for the items w that getRecentFeedback(100)
\* returned
generateSummary(w, nw, days, gen) ==
    LET filtered == SummaryFilter(w, SummaryCutoff(nw, days))
    IN IF Len(filtered) = 0
       THEN [aiCalls |-> 0, prompt |-> NoPrompt, status |-> 200,
             body |-> [summary |-> NoFeedbackMessage(days)]]
       ELSE [aiCalls |-> 1,
             prompt |-> [count |-> Len(filtered), days |-> days,
                         context |-> Context(filtered), question |-> ""],
             status |-> IF gen.kind = "throw" THEN 500 ELSE 200,
             body |-> IF gen.kind = "throw" THEN [error |-> gen.text]
                      ELSE [summary |-> IF gen.text # "" THEN [text |-> gen.text, N |-> 0]
                                        ELSE [text |-> "Unable to generate summary", N |-> 0]]]

----------------------------------------------------------------------------
(* The requests of the Durable Object.  A handler runs without interruption *)
(* from one await to the next; while it waits for AI.run the object takes   *)
(* other requests.                                                          *)

Init ==
    /\ store = <<>>
    /\ nextId = 1
    /\ now = <<41, 2>>
    /\ kind = [r \in Requests |-> "none"]
    /\ pc = [r \in Requests |-> "idle"]
    /\ items = [r \in Requests |-> <<>>]
    /\ curId = [r \in Requests |-> 0]
    /\ processed = [r \in Requests |-> <<>>]
    /\ response = [r \in Requests |-> NoResponse]
    /\ lastAI = NoAI
    /\ arrival = <<>>
    /\ accessLog = <<>>
    /\ resp = NoResult

RECURSIVE SumOver(_, _)
SumOver(f, S) ==
    IF S = {} THEN 0
    ELSE LET x == CHOOSE y \in S : TRUE IN f[x] + SumOver(f, S \ {x})

\* rows still to be written by the calls in flight
Pending == SumOver([r \in Requests |-> Len(items[r]) - Len(processed[r])],
                   {r \in Requests : pc[r] = "awaitAI"})

\* the requests are numbered in the order of their delivery
Delivered(r) == pc[r] = "idle" /\ r = Len(arrival) + 1

\* lines 58-61 and 103-128: POST /ingest up to the first AI.run
IngestArrives(r, batch) ==
    /\ Delivered(r)
    /\ Len(store) + Pending + Len(batch) <= MaxStore
    /\ kind' = [kind EXCEPT ![r] = "ingest"]
    /\ items' = [items EXCEPT ![r] = batch]
    /\ arrival' = Append(arrival, r)
    /\ IF batch = <<>>
       THEN /\ pc' = [pc EXCEPT ![r] = "done"]
            /\ response' = [response EXCEPT ![r] =
                               [status |-> 200, body |-> [success |-> TRUE, processed |-> 0]]]
            /\ UNCHANGED <<nextId, curId>>
       ELSE /\ pc' = [pc EXCEPT ![r] = "awaitAI"]
            /\ curId' = [curId EXCEPT ![r] = nextId]
            /\ nextId' = nextId + 1
            /\ UNCHANGED response
    /\ lastAI' = NoAI
    /\ UNCHANGED <<store, now, processed, accessLog, resp>>

\* lines 130-158, then the next iteration up to its AI.run (106-128) or the
\* return (160, 61); a failed INSERT throws into the catch of fetch (94-99)
ClassifierReturns(r, ai) ==
    /\ pc[r] = "awaitAI"
    /\ LET item == items[r][Len(processed[r]) + 1]
           c == Classify(ai)
           done == Append(processed[r], MakeFeedback(curId[r], item, c))
       IN /\ lastAI' = [req |-> r, result |-> ai]
          /\ accessLog' = Append(accessLog, r)
          /\ IF InsertFails(item)
             THEN /\ pc' = [pc EXCEPT ![r] = "done"]
                  /\ response' = [response EXCEPT ![r] =
                                     [status |-> 500, body |-> [error |-> "constraint failed"]]]
                  /\ UNCHANGED <<store, processed, nextId, curId>>
             ELSE /\ store' = Append(store, MakeRow(curId[r], item, c))
                  /\ processed' = [processed EXCEPT ![r] = done]
                  /\ IF Len(done) < Len(items[r])
                     THEN /\ curId' = [curId EXCEPT ![r] = nextId]
                          /\ nextId' = nextId + 1
                          /\ UNCHANGED <<pc, response>>
                     ELSE /\ pc' = [pc EXCEPT ![r] = "done"]
                          /\ response' = [response EXCEPT ![r] =
                                 [status |-> 200,
                                  body |-> [success |-> TRUE, processed |-> Len(done)]]]
                          /\ UNCHANGED <<nextId, curId>>
    /\ UNCHANGED <<now, kind, items, arrival, resp>>

Answered(r, route, body) ==
    /\ Delivered(r)
    /\ kind' = [kind EXCEPT ![r] = route]
    /\ pc' = [pc EXCEPT ![r] = "done"]
    /\ response' = [response EXCEPT ![r] = [status |-> 200, body |-> body]]
    /\ arrival' = Append(arrival, r)
    /\ accessLog' = Append(accessLog, r)
    /\ lastAI' = NoAI
    /\ UNCHANGED <<store, nextId, now, items, curId, processed, resp>>

\* lines 64-67
DashboardRequest(r) ==
    \E d \in getDashboardData(store, now) : Answered(r, "dashboard", d)

\* lines 69-73
FeedbackRequest(r) ==
    \E f \in getRecentFeedback(store, DefaultFeedbackLimit) :
        Answered(r, "feedback", [feedback |-> f])

\* lines 87-91
TrendsRequest(r) ==
    Answered(r, "trends", [trends |-> getTrends(store, now, DashboardTrendDays)])

Next ==
    \/ \E r \in Requests, batch \in Batches : IngestArrives(r, batch)
    \/ \E r \in Requests, ai \in AIResults : ClassifierReturns(r, ai)
    \/ \E r \in Requests : DashboardRequest(r)
    \/ \E r \in Requests : FeedbackRequest(r)
    \/ \E r \in Requests : TrendsRequest(r)

Spec == Init /\ [][Next]_vars

\* /ingest calls only, each delivered after the one before it was answered
NextIngest ==
    \/ \E r \in Requests, batch \in Batches :
          (\A q \in 1..(r - 1) : pc[q] = "done") /\ IngestArrives(r, batch)
    \/ \E r \in Requests, ai \in AIResults : ClassifierReturns(r, ai)

SpecIngest == Init /\ [][NextIngest]_vars

----------------------------------------------------------------------------
(* Sequential use: one request at a time, each answered before the next is *)
(* delivered.  The store is grown by /ingest calls with a one-item batch   *)
(* and read by the queries; resp holds the result of the query that was    *)
(* answered last, until the next request.                                  *)

Item(source, content, timestamp) ==
    [source |-> source, content |-> content, timestamp |-> timestamp,
     metadata |-> NoMetadata]

Obj(sentiment, score, themes) ==
    AIObject([sentiment |-> JStr(sentiment), score |-> JNum(score), themes |-> JArr(themes)])

\* inputs of the dashboard specification: two timestamps, so that rows tie
\* and rows fall out of the recent window; theme lists with a repeated label
\* and with a label that is an array-index key
DashItems == {Item("app_store", "Love this app!", <<41, 1>>),
              Item("email", "Too expensive", <<40, 1>>)}

ObjOutOfRange == [sentiment |-> JStr("mixed"), score |-> JNum(12),
                  themes |-> JStr("pricing")]

DashResults == {Obj("positive", 9, <<"pricing">>),
                Obj("negative", 2, <<"pricing", "ui", "pricing", "2">>),
                AIObject(ObjOutOfRange),
                AIThrow}

\* inputs of the trend specification: a day more than 30 days back, two
\* recent days (the second is the first day of the clock) and a day after
\* the clock's last
TrendItems == {Item("email", "x", <<5, 1>>),
               Item("email", "x", <<40, 1>>),
               Item("email", "x", <<41, 1>>),
               Item("email", "x", <<45, 1>>)}

TrendResults == {Obj("positive", 9, <<>>),
                 Obj("negative", 2, <<>>),
                 AIThrow}

TrendDays == {1, DashboardTrendDays}

Quiet == UNCHANGED <<kind, pc, items, curId, processed, response, lastAI, arrival, accessLog>>

\* variant: the id is derived from the item's date, not drawn afresh
IngestOne_IdFromDate(item, ai, max) ==
    /\ Len(store) < max
    /\ ~InsertFails(item)
    /\ store' = Append(store, MakeRow(DateOf(item.timestamp), item, Classify(ai)))
    /\ nextId' = nextId + 1
    /\ resp' = NoResult
    /\ now' = now
    /\ Quiet

\* lines 103-161 for a batch of one well-formed item, with its AI.run
IngestOne(item, ai, max) ==
    /\ Len(store) < max
    /\ ~InsertFails(item)
    /\ store' = Append(store, MakeRow(nextId, item, Classify(ai)))
    /\ nextId' = nextId + 1
    /\ resp' = NoResult
    /\ now' = now
    /\ Quiet

\* lines 64-67
DashboardQuery ==
    /\ \E d \in getDashboardData(store, now) :
          resp' = [op |-> "dashboard", at |-> now, data |-> d]
    /\ UNCHANGED <<store, nextId, now>>
    /\ Quiet

\* lines 87-91
TrendsQuery(days) ==
    /\ resp' = [op |-> "trends", days |-> days, data |-> getTrends(store, now, days)]
    /\ UNCHANGED <<store, nextId, now>>
    /\ Quiet

\* the clock moves on: a later time of the day, then the next day
Ticks == (now[1] - 41) * 2 + (now[2] - 2)

Tick ==
    /\ Ticks < MaxTicks
    /\ now' = IF now[2] < 2 THEN <<now[1], now[2] + 1>> ELSE <<now[1] + 1, 1>>
    /\ resp' = NoResult
    /\ UNCHANGED <<store, nextId>>
    /\ Quiet

NextDash ==
    \/ \E item \in DashItems, ai \in DashResults : IngestOne(item, ai, MaxDashStore)
    \/ DashboardQuery

SpecDash == Init /\ [][NextDash]_vars

NextTrend ==
    \/ \E item \in TrendItems, ai \in TrendResults : IngestOne(item, ai, MaxTrendStore)
    \/ \E days \in TrendDays : TrendsQuery(days)
    \/ DashboardQuery
    \/ Tick

SpecTrend == Init /\ [][NextTrend]_vars

----------------------------------------------------------------------------
(* Sequential use with every route: the store is grown by /ingest calls   *)
(* and read by all the queries while the clock moves on.  resp holds the  *)
(* last answer, with the time it was given, until the next request.       *)

\* inputs of the query specification: an item that is 30 days old on the
\* clock's second day, one of the day before the clock's first, one of the
\* clock's first day
QueryItems == {Item("email", "Too expensive", <<12, 2>>),
               Item("app_store", "Crashes on start", <<40, 1>>),
               Item("app_store", "Love this app!", <<41, 1>>)}

QueryResults == {Obj("positive", 9, <<"pricing">>), AIThrow}

SummaryDays == {1, DefaultSummaryDays}

Questions == {"What do users complain about?"}

\* lines 69-73
FeedbackQuery ==
    /\ \E f \in getRecentFeedback(store, DefaultFeedbackLimit) :
          resp' = [op |-> "feedback", at |-> now, data |-> f]
    /\ UNCHANGED <<store, nextId, now>>
    /\ Quiet

\* lines 75-79, with its AI.run
AskQuery(question, gen) ==
    /\ \E w \in getRecentFeedback(store, AskWindow) :
          LET a == askAboutFeedback(w, question, gen)
          IN resp' = [op |-> "ask", at |-> now, aiCalls |-> a.aiCalls, prompt |-> a.prompt,
                      status |-> a.status, body |-> a.body]
    /\ UNCHANGED <<store, nextId, now>>
    /\ Quiet

\* lines 81-85, with its AI.run if there is one
SummaryQuery(days, gen) ==
    /\ \E w \in getRecentFeedback(store, RecentWindow) :
          LET a == generateSummary(w, now, days, gen)
          IN resp' = [op |-> "summary", at |-> now, days |-> days, aiCalls |-> a.aiCalls,
                      prompt |-> a.prompt, status |-> a.status, body |-> a.body]
    /\ UNCHANGED <<store, nextId, now>>
    /\ Quiet

\* the clock moves on while the last answer is still held
ClockAdvances ==
    /\ Ticks < MaxQueryTicks
    /\ now' = IF now[2] < 2 THEN <<now[1], now[2] + 1>> ELSE <<now[1] + 1, 1>>
    /\ UNCHANGED <<store, nextId, resp>>
    /\ Quiet

NextQuery ==
    \/ \E item \in QueryItems, ai \in QueryResults : IngestOne(item, ai, MaxQueryStore)
    \/ DashboardQuery
    \/ \E days \in TrendDays : TrendsQuery(days)
    \/ FeedbackQuery
    \/ \E question \in Questions, gen \in GenResults : AskQuery(question, gen)
    \/ \E days \in SummaryDays, gen \in GenResults : SummaryQuery(days, gen)
    \/ ClockAdvances

SpecQuery == Init /\ [][NextQuery]_vars

----------------------------------------------------------------------------
(* The classification of one item for every response text of AI.run *)

ObjNegative == [sentiment |-> JStr("negative"), score |-> JNum(2),
                themes |-> JArr(<<"ui">>)]

Segments == {Prose, OpenBrace, CloseBrace, ObjectText(ObjPositive), ObjectText(ObjNegative)}

ResponseTexts == SeqsUpTo(Segments, MaxSegments)

\* lines 103-161 for a batch of one well-formed item whose AI.run resolved
\* with the response text `text`; resp holds the text and the returned items
IngestClassified(item, text, max) ==
    /\ Len(store) < max
    /\ ~InsertFails(item)
    /\ LET c == Classify(ParseResponse(text))
       IN /\ store' = Append(store, MakeRow(nextId, item, c))
          /\ resp' = [op |-> "ingest", text |-> text,
                      processed |-> <<MakeFeedback(nextId, item, c)>>]
    /\ nextId' = nextId + 1
    /\ now' = now
    /\ Quiet

NextClassify ==
    \E text \in ResponseTexts : IngestClassified(ItemA, text, MaxClassifyStore)

SpecClassify == Init /\ [][NextClassify]_vars

----------------------------------------------------------------------------
(* Ingestion: claims C1 to C5 *)

IngestDone(r) == kind[r] = "ingest" /\ pc[r] = "done"

Carries(f, item) ==
    /\ f.source = item.source
    /\ f.content = item.content
    /\ f.timestamp = item.timestamp

\* the rows of the table that hold the feedback item f
RowsOf(f) == {j \in 1..Len(store) : store[j].id = f.id}

\* the call answered with processed = its input count, returned one item per
\* input in input order and added one row per input
Complete(r) ==
    /\ response[r].status = 200
    /\ response[r].body.processed = Len(items[r])
    /\ Len(processed[r]) = Len(items[r])
    /\ \A i \in 1..Len(items[r]) :
          /\ Carries(processed[r][i], items[r][i])
          /\ Cardinality(RowsOf(processed[r][i])) = 1
          /\ \A j \in RowsOf(processed[r][i]) : Carries(store[j], items[r][i])
    /\ \A i, j \in 1..Len(items[r]) : processed[r][i].id = processed[r][j].id => i = j

\* every row of the table was written for one returned item of one call
NoOtherRows ==
    \A j \in 1..Len(store) :
        \E r \in Requests : \E i \in 1..Len(processed[r]) : processed[r][i].id = store[j].id

\* C1 as stated: every finished /ingest call, whatever its batch and whatever
\* the classifier did, returned one item per input in input order, added
\* exactly that many rows and reported processed = input count.
C1_EveryBatchComplete ==
    /\ NoOtherRows
    /\ \A r \in Requests : IngestDone(r) => Complete(r)

\* C1 amended: the same for every batch whose items all carry source, content
\* and timestamp.
C1_WellFormedBatchComplete ==
    /\ NoOtherRows
    /\ \A r \in Requests :
          (IngestDone(r) /\ \A i \in 1..Len(items[r]) : ~InsertFails(items[r][i]))
              => Complete(r)

C1_Witness ==
    \E r \in Requests :
        /\ IngestDone(r)
        /\ Len(items[r]) = 2
        /\ items[r][1] # items[r][2]
        /\ response[r].status = 200
        /\ processed[r][1].sentiment = "neutral"
        /\ processed[r][2].sentiment = "positive"

IsSequence(x) == DOMAIN x = 1..Len(x)

\* C2: every stored item has a sentiment that is one of positive, neutral,
\* negative, a numeric score and a sequence of themes.
C2_StoredItemsValid ==
    \A j \in 1..Len(store) :
        /\ store[j].sentiment \in Sentiments
        /\ store[j].score \in Int
        /\ IsSequence(JSONparse(store[j].themes))

Failed(ai) == ai.kind \in {"throw", "none", "invalid"}

\* C3: when the classification of an item (one that carries source, content
\* and timestamp) has just failed, the item is returned and stored with
\* neutral, 5, [], the call has not failed, and it goes on to classify the
\* next item or answers with success; a call that did fail failed on an item
\* whose INSERT is rejected.
C3_FailureAbsorbed ==
    (lastAI.req # 0 /\ Failed(lastAI.result)) =>
        LET r == lastAI.req
            k == Len(processed[r])
        IN IF response[r].status = 500
           THEN InsertFails(items[r][k + 1])
           ELSE /\ k >= 1
                /\ Carries(processed[r][k], items[r][k])
                /\ processed[r][k].sentiment = "neutral"
                /\ processed[r][k].score = 5
                /\ processed[r][k].themes = <<>>
                /\ store # <<>>
                /\ store[Len(store)].id = processed[r][k].id
                /\ RowToItem(store[Len(store)]).sentiment = "neutral"
                /\ RowToItem(store[Len(store)]).score = 5
                /\ RowToItem(store[Len(store)]).themes = <<>>
                /\ IF k < Len(items[r])
                   THEN pc[r] = "awaitAI" /\ response[r] = NoResponse
                   ELSE pc[r] = "done" /\ response[r].status = 200
                        /\ response[r].body.processed = Len(items[r])

C3_Witness ==
    /\ lastAI.req # 0
    /\ lastAI.result.kind = "throw"
    /\ Len(items[lastAI.req]) = 2
    /\ Len(processed[lastAI.req]) = 1
    /\ pc[lastAI.req] = "awaitAI"
    /\ store # <<>>
    /\ store[Len(store)].sentiment = "neutral"

\* C4: the requests touch the store one request after the other in the order
\* of their arrival: no sql.exec of a request comes after one of a request
\* that arrived later.
C4_SerialInArrivalOrder ==
    \A i, j \in 1..Len(accessLog) : i < j => accessLog[i] <= accessLog[j]

\* C5: a batch with a malformed item is answered with an error, all its
\* well-formed items are stored all the same, also those behind the malformed
\* one, and no success is reported for a batch stored in part.
C5_MalformedItemIsolated ==
    \A r \in Requests :
        IngestDone(r) =>
            /\ (\E i \in 1..Len(items[r]) : InsertFails(items[r][i])) => response[r].status = 500
            /\ Len(processed[r]) = Cardinality({i \in 1..Len(items[r]) : ~InsertFails(items[r][i])})
            /\ \A k \in 1..Len(processed[r]) : Cardinality(RowsOf(processed[r][k])) = 1
            /\ response[r].status = 200 => Len(processed[r]) = Len(items[r])

----------------------------------------------------------------------------
(* Aggregation: claims C6 to C10 *)

Abs(x) == IF x < 0 THEN -x ELSE x

\* z is an integer nearest to num / den
Nearest(z, num, den) == 2 * Abs(num - z * den) <= den

RowsWhere(P(_)) == {i \in 1..Len(store) : P(store[i])}

\* C6: the three sentiment counts of the dashboard are the numbers of stored
\* items with that sentiment, and they add up to totalFeedback.
C6_SentimentCountsExact ==
    \A d \in getDashboardData(store, now) :
        /\ \A k \in Sentiments :
              LET HasK(row) == row.sentiment = k
              IN d.sentimentCounts[k] = Cardinality(RowsWhere(HasK))
        /\ d.totalFeedback = d.sentimentCounts["positive"] + d.sentimentCounts["neutral"]
                               + d.sentimentCounts["negative"]

C6_Witness ==
    /\ resp.op = "dashboard"
    /\ resp.data \in getDashboardData(store, now)
    /\ resp.data.sentimentCounts["positive"] = 2
    /\ resp.data.sentimentCounts["neutral"] = 0
    /\ resp.data.sentimentCounts["negative"] = 0
    /\ resp.data.totalFeedback = 2
    /\ Len(store) = 3

\* the sets of row numbers that are the n most recent rows by timestamp
MostRecent(n) ==
    {W \in SUBSET (1..Len(store)) :
        /\ Cardinality(W) = IF Len(store) < n THEN Len(store) ELSE n
        /\ \A i \in W, j \in (1..Len(store)) \ W :
              ~TextLess(store[i].timestamp, store[j].timestamp)}

\* occurrences of theme in the theme lists of the rows W with a sentiment in S
Occurrences(W, theme, S) ==
    Cardinality({<<i, j>> \in W \X (1..5) :
                    /\ j <= Len(JSONparse(store[i].themes))
                    /\ JSONparse(store[i].themes)[j] = theme
                    /\ store[i].sentiment \in S})

AnySentiment == {store[i].sentiment : i \in 1..Len(store)}

\* C7: every themeHealth entry counts the theme's occurrences in the most
\* recent items, in all, in positive and in negative items, and its score is
\* 100 * (positive - negative) / total rounded to an integer: within
\* [-100, 100], 0 when positive = negative, 20 for 6 positive and 4 negative
\* out of 10.
C7_ThemeHealth ==
    /\ HealthScore(6, 4, 10) = 20
    /\ \A d \in getDashboardData(store, now) :
          \E W \in MostRecent(RecentWindow) :
              \A n \in 1..Len(d.themeHealth) :
                  LET e == d.themeHealth[n]
                  IN /\ e.total = Occurrences(W, e.theme, AnySentiment)
                     /\ e.positive = Occurrences(W, e.theme, {"positive"})
                     /\ e.negative = Occurrences(W, e.theme, {"negative"})
                     /\ e.total > 0
                     /\ Nearest(e.score, 100 * (e.positive - e.negative), e.total)
                     /\ e.score \in -100..100
                     /\ e.positive = e.negative => e.score = 0

\* a dashboard over three rows, one of them outside the window, where a theme
\* has one positive and two negative mentions out of three
C7_Witness ==
    /\ resp.op = "dashboard"
    /\ resp.data \in getDashboardData(store, now)
    /\ Len(store) > RecentWindow
    /\ \E n \in 1..Len(resp.data.themeHealth) :
          LET e == resp.data.themeHealth[n]
          IN e.theme = "pricing" /\ e.positive = 1 /\ e.negative = 2 /\ e.total = 3
             /\ e.score = -33

\* the rows the trend query selects: dated on or after the day `days` days
\* before today
InTrendWindow(row, days) == row.timestamp[1] >= now[1] - days

\* C8: the trend series has one entry per calendar day that has items in the
\* window and none for any other day, is strictly ascending by date, and each
\* entry counts that day's items, its positive ones and its negative ones.
C8_TrendSeries ==
    \A days \in TrendDays :
        LET t == getTrends(store, now, days)
            OnDay(d) == {i \in 1..Len(store) :
                            InTrendWindow(store[i], days) /\ DateOf(store[i].timestamp) = d}
        IN /\ \A n \in 1..(Len(t) - 1) : t[n].date < t[n + 1].date
           /\ {t[n].date : n \in 1..Len(t)}
                 = {DateOf(store[i].timestamp) :
                       i \in {j \in 1..Len(store) : InTrendWindow(store[j], days)}}
           /\ \A n \in 1..Len(t) :
                 /\ t[n].total = Cardinality(OnDay(t[n].date))
                 /\ t[n].total > 0
                 /\ t[n].positive
                       = Cardinality({i \in OnDay(t[n].date) : store[i].sentiment = "positive"})
                 /\ t[n].negative
                       = Cardinality({i \in OnDay(t[n].date) : store[i].sentiment = "negative"})

\* three rows on three days of the window, stored newest first
C8_Witness ==
    /\ resp.op = "trends"
    /\ resp.data = getTrends(store, now, resp.days)
    /\ Len(resp.data) = 3
    /\ Len(store) = 3
    /\ TextLess(store[3].timestamp, store[1].timestamp)

\* within the last `days` days of the clock: not after now, and not before
\* the day `days` days back
WithinLast(row, days) ==
    /\ ~TextLess(now, row.timestamp)
    /\ row.timestamp[1] >= now[1] - days

\* C9: every trend entry, of getTrends(N) and of the dashboard's 30-day
\* sentimentTrend, is made of items whose timestamp lies within the last N
\* days before the query: older and future-dated items count in no entry.
C9_TrendOnlyFromLastDays ==
    /\ \A days \in TrendDays :
          LET t == getTrends(store, now, days)
          IN \A n \in 1..Len(t) :
                t[n].total = Cardinality({i \in 1..Len(store) :
                                 /\ DateOf(store[i].timestamp) = t[n].date
                                 /\ WithinLast(store[i], days)})
    /\ \A d \in getDashboardData(store, now) :
          \A n \in 1..Len(d.sentimentTrend) :
              d.sentimentTrend[n].total
                  = Cardinality({i \in 1..Len(store) :
                                 /\ DateOf(store[i].timestamp) = d.sentimentTrend[n].date
                                 /\ WithinLast(store[i], DashboardTrendDays)})

ScoreTotal == SumOver([i \in 1..Len(store) |-> store[i].score], 1..Len(store))

\* C10: averageScore (in tenths) is 0 for the empty store, and for stored
\* scores all within [0, 10] it is within [0, 10] and is the mean of all
\* stored scores rounded to one decimal.
C10_AverageScore ==
    \A d \in getDashboardData(store, now) :
        /\ store = <<>> => d.averageScore = 0
        /\ (store # <<>> /\ \A i \in 1..Len(store) : store[i].score \in 0..10)
              => /\ d.averageScore \in 0..100
                 /\ Nearest(d.averageScore, 10 * ScoreTotal, Len(store))

\* three scores 9, 9, 2: the mean 6.66... is reported as 6.7
C10_Witness ==
    /\ resp.op = "dashboard"
    /\ resp.data \in getDashboardData(store, now)
    /\ Len(store) = 3
    /\ ScoreTotal = 20
    /\ resp.data.averageScore = 67

----------------------------------------------------------------------------
(* Top themes: claim C11 *)

\* the theme lists of the window, item after item from the first (newest) on
RECURSIVE Flatten(_)
Flatten(w) == IF w = <<>> THEN <<>> ELSE Head(w).themes \o Flatten(Tail(w))

CountIn(flat, theme) == Cardinality({i \in 1..Len(flat) : flat[i] = theme})

FirstSeen(flat, theme) ==
    CHOOSE i \in 1..Len(flat) : flat[i] = theme /\ \A j \in 1..(i - 1) : flat[j] # theme

\* C11: for the window of most recent items the dashboard reads, topThemes
\* lists each theme of the window once with its number of occurrences in the
\* window, at most 10 of them and those with the highest counts, sorted by
\* count descending, and of two themes with equal counts the one first seen
\* in the scan of the window from its newest item on comes first, whatever
\* the label.
C11_TopThemes ==
    \A w \in getRecentFeedback(store, RecentWindow) :
        LET t == Dashboard(store, now, w).topThemes
            flat == Flatten(w)
            labels == {flat[i] : i \in 1..Len(flat)}
            listed == {t[n].theme : n \in 1..Len(t)}
        IN /\ Len(t) = IF Cardinality(labels) < TopN THEN Cardinality(labels) ELSE TopN
           /\ listed \subseteq labels
           /\ Cardinality(listed) = Len(t)
           /\ \A n \in 1..Len(t) : t[n].count = CountIn(flat, t[n].theme)
           /\ \A n \in 1..(Len(t) - 1) : t[n].count >= t[n + 1].count
           /\ \A n \in 1..Len(t) : \A x \in labels \ listed : CountIn(flat, x) <= t[n].count
           /\ \A n, m \in 1..Len(t) :
                 (n < m /\ t[n].count = t[m].count)
                     => FirstSeen(flat, t[n].theme) < FirstSeen(flat, t[m].theme)

----------------------------------------------------------------------------
(* Reads: claims C12 and C13 *)

\* an answer is held: the last step was a query, or the clock moved on
\* after one; no insert took effect since the answer was given
AnswerHeld == resp.op # "none"

\* C12 as stated: a dashboard snapshot answered earlier is, while no insert
\* took effect since, still what the dashboard computes, and no step that
\* answers a query (dashboard, trends, recent feedback, ask, summary)
\* changes the store.
C12_SnapshotRepeatable ==
    [][/\ AnswerHeld' => store' = store
       /\ resp'.op = "dashboard" => resp'.data \in getDashboardData(store', now')]_vars

\* C12 amended: the same for a snapshot answered earlier on the same
\* calendar date.
C12_SnapshotRepeatableSameDate ==
    [][/\ AnswerHeld' => store' = store
       /\ (resp'.op = "dashboard" /\ resp'.at[1] = now'[1])
             => resp'.data \in getDashboardData(store', now')]_vars

\* a snapshot with a trend entry, answered earlier the same day over a store
\* of two rows
C12_Witness ==
    /\ resp.op = "dashboard"
    /\ resp.at[1] = now[1]
    /\ TextLess(resp.at, now)
    /\ Len(store) = 2
    /\ resp.data.totalFeedback = 2
    /\ resp.data.sentimentTrend # <<>>
    /\ resp.data \in getDashboardData(store, now)

\* C13: a /summary request for N days made the generation call only if one
\* of the most recent items has a timestamp >= the time of the request less
\* N days; if none has, the store being empty or not, it made no generation
\* call and answered 'No feedback received in the last N days.'
C13_SummaryGate ==
    resp.op = "summary" =>
        LET cutoff == <<resp.at[1] - resp.days, resp.at[2]>>
            Recent == \E W \in MostRecent(RecentWindow) :
                          \E i \in W : ~TextLess(store[i].timestamp, cutoff)
        IN /\ resp.aiCalls \in {0, 1}
           /\ resp.aiCalls = 1 => Recent
           /\ ~Recent =>
                 /\ resp.aiCalls = 0
                 /\ resp.status = 200
                 /\ resp.body = [summary |-> [text |-> "No feedback received in the last N days.",
                                              N |-> resp.days]]

\* a summary over a store whose newest item is of the cutoff's date, at an
\* earlier time of the day: no generation call
C13_Witness ==
    /\ resp.op = "summary"
    /\ resp.at = now
    /\ Len(store) = 2
    /\ \E i \in 1..Len(store) : DateOf(store[i].timestamp) = now[1] - resp.days
    /\ resp.aiCalls = 0
    /\ resp.body.summary.N = resp.days

----------------------------------------------------------------------------
(* The store: claim C14 *)

UniqueIds(s) == \A i, j \in 1..Len(s) : s[i].id = s[j].id => i = j

\* C14: over any step (ingest, dashboard, trends, feedback, ask, summary)
\* every stored row is still there afterwards with all its eight columns as
\* they were, and no two rows share an id.
C14_StoreOnlyGrows ==
    [][/\ Len(store') >= Len(store)
       /\ \A i \in 1..Len(store) : \E j \in 1..Len(store') : store'[j] = store[i]
       /\ UniqueIds(store')]_vars

\* two rows, written for the same input item, after an /ask was answered
C14_Witness ==
    /\ resp.op = "ask"
    /\ Len(store) = 2
    /\ store[1].id # store[2].id
    /\ Carries(store[1], store[2])
    /\ resp.prompt.count = 2

----------------------------------------------------------------------------
(* The classifier's response text: claim C15 *)

\* C15: when the first braces of the response text are those of a valid
\* JSON object and text with braces follows it (a second object, a single
\* brace), the item is returned and stored with the judgment of that first
\* object.
C15_FirstObjectParsed ==
    resp.op = "ingest" =>
        \A i \in 1..Len(resp.text) :
            (/\ resp.text[i].seg = "object"
             /\ \A j \in 1..(i - 1) : resp.text[j].seg = "prose"
             /\ \E j \in (i + 1)..Len(resp.text) : resp.text[j].seg # "prose")
                => LET c == Classify(AIObject(resp.text[i].obj))
                       f == resp.processed[1]
                       row == RowToItem(store[Len(store)])
                   IN /\ f.sentiment = c.sentiment /\ f.score = c.score /\ f.themes = c.themes
                      /\ row.sentiment = c.sentiment /\ row.score = c.score
                      /\ row.themes = c.themes

----------------------------------------------------------------------------
(* The dashboard's totals: claim C16 *)

RECURSIVE SumCounts(_)
SumCounts(S) ==
    IF S = {} THEN 0
    ELSE LET x == CHOOSE y \in S : TRUE IN x.count + SumCounts(S \ {x})

\* C16: the dashboard's totalFeedback is the number of stored items and is
\* the sum of the counts of sourceBreakdown, whatever the classifier
\* returned for the items.
C16_TotalsAgree ==
    \A d \in getDashboardData(store, now) :
        /\ d.totalFeedback = Len(store)
        /\ d.totalFeedback = SumCounts(d.sourceBreakdown)

====
